---- MODULE Spec2Model ----
(***************************************************************************)
(* The ReAct agent loop of src/documentations/src/agents/react_agent.py:   *)
(* a two-node LangGraph state graph ("agent" calls the model, "tools" runs *)
(* the requested tools through langgraph.prebuilt.ToolNode), the           *)
(* conditional edge _should_continue, and the invoke/stream entry points.  *)
(* The language model is an external collaborator; it is modelled as a     *)
(* scripted stub chosen in Init, a deterministic function of the message   *)
(* list it is handed.                                                      *)
(***************************************************************************)
EXTENDS Integers, Sequences, FiniteSets, TLC

(***************************************************************************)
(* Bounds of the model.                                                    *)
(***************************************************************************)
\* Number of super-steps the graph runs before GraphRecursionError.  The
\* agent calls graph.invoke(initial_state) / graph.stream(initial_state)
\* without a config, so LangGraph's own default applies (25 in the library);
\* the model scales it down.
GraphRecursionLimit == 5

\* Largest index of the model call that the stub answers without tool calls
\* (or fails at).
MaxFinal == 4

\* Longest cycle of tool-requesting responses of the stub.
MaxCycle == 2

(***************************************************************************)
(* Program constants.                                                      *)
(***************************************************************************)
\* AgentConfig.max_iterations and AgentConfig.recursion_limit defaults.
max_iterations == 5
recursion_limit == 25

NoId == 0

REACT_SYSTEM_PROMPT == "REACT_SYSTEM_PROMPT"

\* ALL_TOOLS, by name.
ALL_TOOLS ==
  <<"calculator", "add", "multiply", "web_search", "get_current_time", "get_weather">>

ToolNames == {ALL_TOOLS[i] : i \in DOMAIN ALL_TOOLS}

Queries == {"What is 2 + 2?", "What's the weather like in Tokyo?"}

Modes == {"invoke", "stream"}

\* AgentConfig values a caller can construct: the defaults and a tighter one.
AgentConfigs ==
  { [max_iterations |-> max_iterations, recursion_limit |-> recursion_limit],
    [max_iterations |-> 2, recursion_limit |-> 3] }

(***************************************************************************)
(* Messages (langchain_core.messages).                                     *)
(***************************************************************************)
Message(type, content, tool_calls, tool_call_id, name) ==
  [type |-> type, content |-> content, tool_calls |-> tool_calls,
   tool_call_id |-> tool_call_id, name |-> name, id |-> NoId]

NoCall == <<0, "none">>

SystemMessage(content) == Message("system", content, <<>>, NoCall, "")
HumanMessage(content) == Message("human", content, <<>>, NoCall, "")
AIMessage(content, tool_calls) == Message("ai", content, tool_calls, NoCall, "")
ToolMessage(content, name, tool_call_id) ==
  Message("tool", content, <<>>, tool_call_id, name)

ToolCall(name, args, id) == [name |-> name, args |-> args, id |-> id]

Last(s) == s[Len(s)]


(***************************************************************************)
(* The scripted model stub.  A script is a cycle of tool-requesting        *)
(* responses, the index of the call answered without tool calls (0: the    *)
(* stub never stops requesting tools), whether that call raises instead,   *)
(* and whether the provider issues a fresh call identifier on every turn.  *)
(***************************************************************************)
ToolRequests ==
  { <<ToolCall("calculator", <<"2", "+", "2">>, "call_a")>>,
    <<ToolCall("get_weather", <<"A", "t", "l", "a", "n", "t", "i", "s">>, "call_b"),
      ToolCall("web_search", <<"z", "z", "z">>, "call_c")>>,
    <<ToolCall("no_such_tool", <<"x">>, "call_d"),
      ToolCall("calculator", <<"3", "//", "2">>, "call_e")>> }

Cycles == UNION { [1..n -> ToolRequests] : n \in 1..MaxCycle }

Scripts ==
  [cycle : Cycles, final_at : 0..MaxFinal, final_fails : BOOLEAN,
   unique_ids : BOOLEAN]

\* Index of the model call that is handed msgs: one more than the number of
\* Assistant messages already in it.
CallIndex(msgs) == 1 + Cardinality({i \in DOMAIN msgs : msgs[i].type = "ai"})

\* llm_with_tools.invoke(messages) raises.
Raises(s, msgs) == s.final_fails /\ CallIndex(msgs) = s.final_at

\* llm_with_tools.invoke(messages) returns an AIMessage.
Generate(s, msgs) ==
  LET n == CallIndex(msgs)
      calls == s.cycle[((n - 1) % Len(s.cycle)) + 1]
      turn == IF s.unique_ids THEN n ELSE 0
  IN IF n = s.final_at
       THEN AIMessage("final answer", <<>>)
       ELSE AIMessage("", [j \in DOMAIN calls |->
                              ToolCall(calls[j].name, calls[j].args,
                                       <<turn, calls[j].id>>)])

(***************************************************************************)
(* The tools, as far as the loop needs them: each returns a string.        *)
(***************************************************************************)
\* Text.  A str the tools inspect is a sequence of one-character strings; the
\* text a tool returns is a sequence of pieces, the literal and the
\* interpolated parts of its f-strings in order.
LowerCase ==
  <<"a", "b", "c", "d", "e", "f", "g", "h", "i", "j", "k", "l", "m",
    "n", "o", "p", "q", "r", "s", "t", "u", "v", "w", "x", "y", "z">>

UpperCase ==
  <<"A", "B", "C", "D", "E", "F", "G", "H", "I", "J", "K", "L", "M",
    "N", "O", "P", "Q", "R", "S", "T", "U", "V", "W", "X", "Y", "Z">>

IsUpper(c) == \E i \in DOMAIN UpperCase : UpperCase[i] = c
IsLower(c) == \E i \in DOMAIN LowerCase : LowerCase[i] = c

lower_char(c) ==
  IF IsUpper(c) THEN LowerCase[CHOOSE i \in DOMAIN UpperCase : UpperCase[i] = c] ELSE c

upper_char(c) ==
  IF IsLower(c) THEN UpperCase[CHOOSE i \in DOMAIN LowerCase : LowerCase[i] = c] ELSE c

\* str.lower()
lower(cs) == [i \in DOMAIN cs |-> lower_char(cs[i])]

\* str.title(): a letter that follows a non-letter is upper-cased, any other
\* letter lower-cased.
title(cs) ==
  [i \in DOMAIN cs |->
     IF i = 1 \/ ~(IsUpper(cs[i - 1]) \/ IsLower(cs[i - 1]))
       THEN upper_char(cs[i]) ELSE lower_char(cs[i])]

\* The characters of a str, as one piece of text.
Str(cs) ==
  LET upto[i \in 0..Len(cs)] == IF i = 0 THEN "" ELSE upto[i - 1] \o cs[i]
  IN upto[Len(cs)]

\* The pieces of a text run together, as they reach a ToolMessage.
Text(pieces) ==
  LET upto[i \in 0..Len(pieces)] == IF i = 0 THEN "" ELSE upto[i - 1] \o pieces[i]
  IN upto[Len(pieces)]

\* sep.join(items), piece by piece.
join(sep, items) ==
  IF items = <<>> THEN <<>>
  ELSE [k \in 1..(2 * Len(items) - 1) |->
          IF k % 2 = 1 THEN items[(k + 1) \div 2] ELSE sep]

\* The character U+00B0.
DegreeSign == "[deg]"

(***************************************************************************)
(* calculator: eval(expression, {"__builtins__": {}}, safe_dict).  An      *)
(* expression is the sequence of its tokens (the text is the tokens        *)
(* separated by blanks).  The tokens modelled: the integer literals 0, 2   *)
(* and 3; the operators + - * % and //; the parentheses; the names abs     *)
(* (in safe_dict) and __import__ (a builtin); the string literal 'os'.     *)
(* A Python value is a record of its type and value; an exception raised   *)
(* during evaluation is a value of type "raise" that holds the class name. *)
(***************************************************************************)
IntValue(n) == [type |-> "int", value |-> n]
StrValue(text) == [type |-> "str", text |-> text]
EmptyTuple == [type |-> "tuple"]
Builtin(name) == [type |-> "builtin", name |-> name]
Raise(exception) == [type |-> "raise", exception |-> exception]

NumberTokens == {"0", "2", "3"}
NameTokens == {"abs", "__import__"}
StringTokens == {"'os'"}

\* The value of a literal.
number(tok) == CASE tok = "0" -> 0 [] tok = "2" -> 2 [] tok = "3" -> 3
string(tok) == CASE tok = "'os'" -> "os"

\* The names of safe_dict (the local namespace of the eval).
safe_dict ==
  {"sqrt", "pow", "sin", "cos", "tan", "log", "log10", "exp", "abs", "round",
   "pi", "e"}

\* Name lookup: locals (safe_dict), then globals, then the emptied builtins.
lookup(name) ==
  IF name \in safe_dict THEN Builtin(name) ELSE Raise("NameError")

\* Variant: the remainder takes the sign of the dividend.
py_mod_truncated(a, b) ==
  LET r == (IF a < 0 THEN -a ELSE a) % (IF b < 0 THEN -b ELSE b)
  IN IF a < 0 THEN -r ELSE r

\* int % int and int // int for a non-zero divisor: the remainder takes the
\* sign of the divisor, the quotient is rounded down.
py_mod(a, b) == IF b > 0 THEN a % b ELSE -((-a) % (-b))
py_floordiv(a, b) ==
  IF b > 0 THEN (a - py_mod(a, b)) \div b ELSE (py_mod(a, b) - a) \div (-b)

\* str * int
RECURSIVE repeat(_, _)
repeat(text, n) == IF n <= 0 THEN "" ELSE text \o repeat(text, n - 1)

\* left op right, both operands evaluated first, the left one before the
\* right one.
binary_op(op, l, r) ==
  IF l.type = "raise" THEN l
  ELSE IF r.type = "raise" THEN r
  ELSE IF l.type = "int" /\ r.type = "int"
    THEN CASE op = "+" -> IntValue(l.value + r.value)
           [] op = "-" -> IntValue(l.value - r.value)
           [] op = "*" -> IntValue(l.value * r.value)
           [] op = "%" -> IF r.value = 0 THEN Raise("ZeroDivisionError")
                          ELSE IntValue(py_mod(l.value, r.value))
           [] op = "//" -> IF r.value = 0 THEN Raise("ZeroDivisionError")
                           ELSE IntValue(py_floordiv(l.value, r.value))
  ELSE IF op = "+" /\ l.type = "str" /\ r.type = "str"
    THEN StrValue(l.text \o r.text)
  ELSE IF op = "+" /\ l.type = "tuple" /\ r.type = "tuple" THEN EmptyTuple
  ELSE IF op = "*" /\ l.type = "str" /\ r.type = "int"
    THEN StrValue(repeat(l.text, r.value))
  ELSE IF op = "*" /\ l.type = "int" /\ r.type = "str"
    THEN StrValue(repeat(r.text, l.value))
  ELSE IF op = "*" /\ {l.type, r.type} = {"tuple", "int"} THEN EmptyTuple
  \* str % args: the text has no conversion specifier, so only the empty
  \* tuple of arguments is accepted
  ELSE IF op = "%" /\ l.type = "str" /\ r.type = "tuple" THEN l
  ELSE Raise("TypeError")

\* +operand, -operand
unary_op(op, v) ==
  IF v.type = "raise" THEN v
  ELSE IF v.type = "int" THEN IntValue(IF op = "-" THEN -v.value ELSE v.value)
  ELSE Raise("TypeError")

\* callee(args...): callee and argument are evaluated first.  star: the
\* argument is unpacked (callee(*arg)); no value of the modelled types
\* unpacks to one number, so such a call always fails.
call_function(callee, args, star) ==
  IF callee.type = "raise" THEN callee
  ELSE IF args # <<>> /\ args[1].type = "raise" THEN args[1]
  ELSE IF callee.type = "builtin" /\ callee.name = "abs" /\ ~star
          /\ Len(args) = 1 /\ args[1].type = "int"
    THEN IntValue(IF args[1].value < 0 THEN -args[1].value ELSE args[1].value)
  ELSE Raise("TypeError")

\* str(result)
str(v) ==
  CASE v.type = "int" -> ToString(v.value)
    [] v.type = "str" -> v.text
    [] v.type = "tuple" -> "()"
    [] v.type = "builtin" -> "<built-in function " \o v.name \o ">"

\* The parser and evaluator of eval, by Python's grammar: each operator
\* takes the tokens and a position and returns whether a phrase was
\* recognised there, its value, and the position after it.
Parsed(v, i) == [ok |-> TRUE, val |-> v, pos |-> i]
SyntaxError == [ok |-> FALSE, val |-> Raise("SyntaxError"), pos |-> 0]
Tok(ts, i) == IF i \in DOMAIN ts THEN ts[i] ELSE "ENDMARKER"

RECURSIVE parse_sum(_, _), sum_rest(_, _), parse_term(_, _), term_rest(_, _),
          parse_factor(_, _), parse_primary(_, _), trailers(_, _),
          parse_atom(_, _), strings(_, _)

\* sum: term (('+' | '-') term)*
parse_sum(ts, i) == sum_rest(ts, parse_term(ts, i))

sum_rest(ts, l) ==
  IF l.ok /\ Tok(ts, l.pos) \in {"+", "-"}
    THEN LET r == parse_term(ts, l.pos + 1)
         IN IF r.ok
              THEN sum_rest(ts, Parsed(binary_op(ts[l.pos], l.val, r.val), r.pos))
              ELSE SyntaxError
    ELSE l

\* term: factor (('*' | '%' | '//') factor)*
parse_term(ts, i) == term_rest(ts, parse_factor(ts, i))

term_rest(ts, l) ==
  IF l.ok /\ Tok(ts, l.pos) \in {"*", "%", "//"}
    THEN LET r == parse_factor(ts, l.pos + 1)
         IN IF r.ok
              THEN term_rest(ts, Parsed(binary_op(ts[l.pos], l.val, r.val), r.pos))
              ELSE SyntaxError
    ELSE l

\* factor: ('+' | '-') factor | primary
parse_factor(ts, i) ==
  IF Tok(ts, i) \in {"+", "-"}
    THEN LET f == parse_factor(ts, i + 1)
         IN IF f.ok THEN Parsed(unary_op(ts[i], f.val), f.pos) ELSE SyntaxError
    ELSE parse_primary(ts, i)

\* primary: atom ('(' [['*'] expression] ')')*
parse_primary(ts, i) == trailers(ts, parse_atom(ts, i))

trailers(ts, f) ==
  IF f.ok /\ Tok(ts, f.pos) = "("
    THEN IF Tok(ts, f.pos + 1) = ")"
           THEN trailers(ts, Parsed(call_function(f.val, <<>>, FALSE), f.pos + 2))
           ELSE LET star == Tok(ts, f.pos + 1) = "*"
                    arg == parse_sum(ts, IF star THEN f.pos + 2 ELSE f.pos + 1)
                IN IF arg.ok /\ Tok(ts, arg.pos) = ")"
                     THEN trailers(ts, Parsed(call_function(f.val, <<arg.val>>, star),
                                              arg.pos + 1))
                     ELSE SyntaxError
    ELSE f

\* atom: NUMBER | NAME | STRING+ | '(' [expression] ')'
parse_atom(ts, i) ==
  LET tok == Tok(ts, i)
  IN IF tok \in NumberTokens THEN Parsed(IntValue(number(tok)), i + 1)
     ELSE IF tok \in NameTokens THEN Parsed(lookup(tok), i + 1)
     ELSE IF tok \in StringTokens THEN strings(ts, Parsed(StrValue(string(tok)), i + 1))
     ELSE IF tok = "("
       THEN IF Tok(ts, i + 1) = ")" THEN Parsed(EmptyTuple, i + 2)
            ELSE LET e == parse_sum(ts, i + 1)
                 IN IF e.ok /\ Tok(ts, e.pos) = ")"
                      THEN Parsed(e.val, e.pos + 1) ELSE SyntaxError
     ELSE SyntaxError

\* Adjacent string literals are one string.
strings(ts, l) ==
  IF Tok(ts, l.pos) \in StringTokens
    THEN strings(ts, Parsed(StrValue(l.val.text \o string(ts[l.pos])), l.pos + 1))
    ELSE l

\* eval(expression, ...): the value, or the exception raised.
eval(expression) ==
  LET e == parse_sum(expression, 1)
  IN IF e.ok /\ e.pos = Len(expression) + 1 THEN e.val ELSE Raise("SyntaxError")

\* The text of the error stands for str(e): the class of the exception.
calculator(expression) ==
  LET value == eval(expression)
  IN IF value.type = "raise"
       THEN <<"Error evaluating expression: ", value.exception>>
       ELSE <<"Result: ", str(value)>>

\* get_weather: the simulated weather table, in the order of the dict.
weather_data ==
  << [city |-> <<"n", "e", "w", " ", "y", "o", "r", "k">>, temp |-> 45,
      condition |-> "Partly Cloudy", humidity |-> 65],
     [city |-> <<"l", "o", "n", "d", "o", "n">>, temp |-> 50,
      condition |-> "Rainy", humidity |-> 80],
     [city |-> <<"t", "o", "k", "y", "o">>, temp |-> 55,
      condition |-> "Clear", humidity |-> 55],
     [city |-> <<"s", "y", "d", "n", "e", "y">>, temp |-> 75,
      condition |-> "Sunny", humidity |-> 60],
     [city |-> <<"p", "a", "r", "i", "s">>, temp |-> 48,
      condition |-> "Overcast", humidity |-> 70],
     [city |-> <<"m", "u", "m", "b", "a", "i">>, temp |-> 85,
      condition |-> "Humid", humidity |-> 85] >>

\* f"{(temp-32)*5/9:.1f}" for temp >= 32: the quotient to the nearest tenth
\* (9 is odd, so no value lies halfway between two tenths).
celsius_1f(temp) ==
  LET tenths == ((temp - 32) * 100 + 9) \div 18
  IN ToString(tenths \div 10) \o "." \o ToString(tenths % 10)

\* Variant: the lookup uses the city as given.
get_weather_as_given(city) ==
  LET hit == {i \in DOMAIN weather_data : weather_data[i].city = city}
  IN IF hit # {}
       THEN LET data == weather_data[CHOOSE i \in hit : TRUE]
            IN << "Weather in ", Str(title(city)), ":\n- Temperature: ",
                  ToString(data.temp), DegreeSign \o "F (", celsius_1f(data.temp),
                  DegreeSign \o "C)\n- Condition: ", data.condition,
                  "\n- Humidity: ", ToString(data.humidity), "%" >>
       ELSE << "Weather data not available for '", Str(city),
               "'. Available cities: " >>
            \o join(", ", [i \in DOMAIN weather_data |-> Str(weather_data[i].city)])

get_weather(city) ==
  LET city_lower == lower(city)
      hit == {i \in DOMAIN weather_data : weather_data[i].city = city_lower}
  IN IF hit # {}
       THEN LET data == weather_data[CHOOSE i \in hit : TRUE]
            IN << "Weather in ", Str(title(city)), ":\n- Temperature: ",
                  ToString(data.temp), DegreeSign \o "F (", celsius_1f(data.temp),
                  DegreeSign \o "C)\n- Condition: ", data.condition,
                  "\n- Humidity: ", ToString(data.humidity), "%" >>
       ELSE << "Weather data not available for '", Str(city),
               "'. Available cities: " >>
            \o join(", ", [i \in DOMAIN weather_data |-> Str(weather_data[i].city)])

\* datetime.now().strftime('%Y-%m-%d') at the time the module is imported.
Today == "YYYY-MM-DD"

\* KNOWLEDGE_BASE, in the order of the dict.
KNOWLEDGE_BASE ==
  <<
     [key |-> <<"l", "a", "n", "g", "g", "r", "a", "p", "h">>,
      title |-> "LangGraph - Build Stateful AI Agents",
      content |->
          "LangGraph is a library for building stateful, multi-actor "
          \o "applications with LLMs. It extends LangChain with cyclic "
          \o "computational capabilities, enabling complex agent "
          \o "workflows. Key features: State management, Conditional "
          \o "edges, Parallel execution, Human-in-the-loop.",
      url |-> "https://langchain-ai.github.io/langgraph/"],
     [key |-> <<"r", "e", "a", "c", "t", " ", "a", "g", "e", "n", "t">>,
      title |-> "ReAct: Synergizing Reasoning and Acting in Language Models",
      content |->
          "ReAct (Reasoning + Acting) is a paradigm where LLMs "
          \o "interleave reasoning traces and actions. The agent thinks "
          \o "step-by-step (Thought), takes an action (Action), and "
          \o "observes the result (Observation). This loop continues until"
          \o " the task is complete.",
      url |-> "https://arxiv.org/abs/2210.03629"],
     [key |-> <<"g", "e", "m", "i", "n", "i", " ", "a", "p", "i">>,
      title |-> "Google Gemini API Documentation",
      content |->
          "Gemini is Google's most capable AI model family. The API "
          \o "provides access to Gemini 1.5 Pro, Gemini 1.5 Flash, and "
          \o "other models. Features include multimodal understanding, "
          \o "long context windows (up to 2M tokens), and function calling"
          \o " capabilities.",
      url |-> "https://ai.google.dev/docs"],
     [key |-> <<"l", "a", "n", "g", "c", "h", "a", "i", "n">>,
      title |-> "LangChain - Build LLM Applications",
      content |->
          "LangChain is a framework for developing applications powered"
          \o " by language models. It provides modules for prompts, "
          \o "models, memory, chains, agents, and tools. LangChain "
          \o "Expression Language (LCEL) enables easy composition of "
          \o "components.",
      url |-> "https://python.langchain.com/"],
     [key |-> <<"p", "y", "t", "h", "o", "n">>,
      title |-> "Python Programming Language",
      content |->
          "Python is a high-level, general-purpose programming "
          \o "language. Current stable version is Python 3.12. Known for "
          \o "readability and extensive libraries. Widely used in AI/ML, "
          \o "web development, data science, and automation.",
      url |-> "https://www.python.org/"],
     [key |-> <<"w", "e", "a", "t", "h", "e", "r">>,
      title |-> "Current Weather Information",
      content |->
          "Weather data as of " \o Today \o ": "
          \o "Temperature varies by location. For accurate weather, please"
          \o " specify a city. "
          \o "Demo shows: New York - 45" \o DegreeSign \o "F, London - 50" \o DegreeSign
          \o "F, Tokyo - 55" \o DegreeSign \o "F, Sydney - 75" \o DegreeSign \o "F.",
      url |-> "https://weather.example.com/"] >>

\* sub in s, for strs.
contains(s, sub) ==
  \E i \in 0..(Len(s) - Len(sub)) : SubSeq(s, i + 1, i + Len(sub)) = sub

\* str.split(): the maximal runs of non-blank characters.
RECURSIVE split(_)
split(cs) ==
  IF cs = <<>> THEN <<>>
  ELSE IF Head(cs) = " " THEN split(Tail(cs))
  ELSE LET blanks == {i \in DOMAIN cs : cs[i] = " "}
           stop == IF blanks = {} THEN Len(cs) + 1
                   ELSE CHOOSE i \in blanks : \A k \in blanks : i <= k
       IN <<SubSeq(cs, 1, stop - 1)>> \o split(SubSeq(cs, stop, Len(cs)))

\* Variant: a record matches only when its whole key occurs in the query.
kb_match_whole_key(key, query_lower) == contains(query_lower, key)

\* key in query_lower or any(word in query_lower for word in key.split())
kb_match(key, query_lower) ==
  \/ contains(query_lower, key)
  \/ \E w \in DOMAIN split(key) : contains(query_lower, split(key)[w])

\* The loop over KNOWLEDGE_BASE.items(): the indices of the records appended
\* to results, after each record.
kb_results(query_lower) ==
  LET results[k \in 0..Len(KNOWLEDGE_BASE)] ==
        IF k = 0 THEN <<>>
        ELSE IF kb_match(KNOWLEDGE_BASE[k].key, query_lower)
          THEN Append(results[k - 1], k) ELSE results[k - 1]
  IN results[Len(KNOWLEDGE_BASE)]

\* The loop over enumerate(results, 1): the text added for each result.
format_results(results) ==
  LET output[i \in 0..Len(results)] ==
        IF i = 0 THEN <<>>
        ELSE LET data == KNOWLEDGE_BASE[results[i]]
             IN output[i - 1] \o
                << ToString(i), ". **", data.title, "**\n",
                   "   ", data.content, "\n",
                   "   Source: ", data.url, "\n\n" >>
  IN output[Len(results)]

web_search(search_query) ==
  LET query_lower == lower(search_query)
      results == kb_results(query_lower)
  IN IF results = <<>>
       THEN << "Search results for '", Str(search_query), "':\n",
               "No specific results found in demo knowledge base.\n",
               "In production, this would return real web search results.\n",
               "Tip: Try searching for 'LangGraph', 'ReAct agent', 'Gemini API', or 'Python'." >>
       ELSE << "Search results for '", Str(search_query), "':\n\n" >>
            \o format_results(results)

\* Variant: the ToolMessage does not carry the call's identifier.
RunOneNoCallId(call) ==
  ToolMessage("Result", call.name, NoCall)

\* tool.invoke(args) of a registered tool.
invoke(name, args) ==
  CASE name = "calculator" -> calculator(args)
    [] name = "get_weather" -> get_weather(args)
    [] name = "web_search" -> web_search(args)
    [] OTHER -> <<"Result">>

\* The tool calls the stub's scripts request.
ScriptedCalls == UNION { {r[j] : j \in DOMAIN r} : r \in ToolRequests }

\* A tool's text depends on its arguments only: the text each scripted call
\* of a registered tool returns, worked out once.
tool_outputs ==
  { <<c.name, c.args, Text(invoke(c.name, c.args))>> :
      c \in {d \in ScriptedCalls : d.name \in ToolNames} }

\* ToolNode's handling of one tool call: an unregistered name becomes an
\* error ToolMessage, a registered tool is invoked with the arguments.
RunOne(call) ==
  IF call.name \notin ToolNames
    THEN ToolMessage("Error: not a valid tool", call.name, call.id)
    ELSE ToolMessage(
           (CHOOSE out \in tool_outputs :
              out[1] = call.name /\ out[2] = call.args)[3],
           call.name, call.id)

(***************************************************************************)
(* AgentState: the add_messages reducer.  Messages without an id get a     *)
(* fresh one; a new message whose id is already in the log replaces that   *)
(* entry, any other is appended.                                           *)
(***************************************************************************)
WithId(m, n) == IF m.id = NoId THEN [m EXCEPT !.id = n] ELSE m

RECURSIVE Merge(_, _)
Merge(left, right) ==
  IF right = <<>> THEN left
  ELSE LET m == Head(right)
           hit == {i \in DOMAIN left : left[i].id = m.id}
       IN Merge(IF hit # {}
                  THEN [i \in DOMAIN left |-> IF i \in hit THEN m ELSE left[i]]
                  ELSE Append(left, m),
                Tail(right))

\* Variant: new messages are merged without being given an id.
add_messages_no_ids(left, right, n) == Merge(left, right)

add_messages(left, right, n) ==
  Merge(left, [i \in DOMAIN right |-> WithId(right[i], n + i - 1)])

(***************************************************************************)
(* The node callbacks of ReActAgent.                                       *)
(***************************************************************************)
\* Variant: the system prompt is added only to an empty list.
agent_input_if_empty(msgs) ==
  IF msgs = <<>>
    THEN <<SystemMessage(REACT_SYSTEM_PROMPT)>> \o msgs
    ELSE msgs

\* _agent_node, lines 138-142: the message list handed to the model.
agent_input(msgs) ==
  IF msgs = <<>> \/ msgs[1].type # "system"
    THEN <<SystemMessage(REACT_SYSTEM_PROMPT)>> \o msgs
    ELSE msgs

\* Variant: the injected system message is returned with the response.
agent_node_with_system(s, msgs) ==
  IF msgs = <<>> \/ msgs[1].type # "system"
    THEN <<SystemMessage(REACT_SYSTEM_PROMPT), Generate(s, agent_input(msgs))>>
    ELSE <<Generate(s, agent_input(msgs))>>

\* Variant: the response is returned twice.
agent_node_twice(s, msgs) ==
  <<Generate(s, agent_input(msgs)), Generate(s, agent_input(msgs))>>

\* _agent_node, lines 144-147: the state update it returns.
agent_node(s, msgs) == <<Generate(s, agent_input(msgs))>>

\* Variant: continues only on two or more tool calls.
should_continue_two(msgs) ==
  IF Last(msgs).type = "ai" /\ Len(Last(msgs).tool_calls) > 1
    THEN "continue"
    ELSE "end"

\* Variant: never continues.
should_continue_never(msgs) == "end"

\* _should_continue.
should_continue(msgs) ==
  IF Last(msgs).type = "ai" /\ Last(msgs).tool_calls # <<>>
    THEN "continue"
    ELSE "end"

\* Variant: the two targets swapped.
EdgeTargetSwapped(l) == IF l = "continue" THEN "done" ELSE "tools"

\* The conditional edge's mapping of labels to nodes.
EdgeTarget(l) == IF l = "continue" THEN "tools" ELSE "done"

\* Variant: the content of the first message of the result is returned.
final_response_first(msgs) == msgs[1].content

\* invoke, lines 185-187: the content of the last message of the result.
final_response(msgs) == Last(msgs).content

\* ToolNode: the tool calls of the latest message, and the ToolMessages
\* returned for them, in the order of the calls.
PendingCalls(msgs) == Last(msgs).tool_calls

\* Variant: the ToolMessages come back in the order the calls completed,
\* last call first.
tool_node_reversed(msgs) ==
  [j \in DOMAIN PendingCalls(msgs) |->
     RunOne(PendingCalls(msgs)[Len(PendingCalls(msgs)) + 1 - j])]

tool_node(msgs) == [j \in DOMAIN PendingCalls(msgs) |-> RunOne(PendingCalls(msgs)[j])]

\* Variant: only the agent node's updates are yielded.
stream_yield_agent_only(m, yielded, node, update, n) ==
  IF m = "stream" /\ node = "agent"
    THEN Append(yielded, [node |-> node,
                          messages |-> [i \in DOMAIN update |-> WithId(update[i], n + i - 1)]])
    ELSE yielded

\* stream: graph.stream(initial_state) yields, after each node execution,
\* the node's name with the update it returned; invoke yields nothing.
stream_yield(m, yielded, node, update, n) ==
  IF m = "stream"
    THEN Append(yielded, [node |-> node,
                          messages |-> [i \in DOMAIN update |-> WithId(update[i], n + i - 1)]])
    ELSE yielded

(***************************************************************************)
(* State.                                                                  *)
(*   script, config  the model stub and the AgentConfig of this run        *)
(*   pc              position of the graph: "idle" before the call,        *)
(*                   "agent" (agent node scheduled), "route" (agent node   *)
(*                   returned, conditional edge pending), "tools" (ToolNode *)
(*                   scheduled or running), "done" (END), "model_error"    *)
(*                   (the model call raised), "out_of_steps"               *)
(*                   (GraphRecursionError)                                 *)
(*   mode, query     how the run was started                               *)
(*   messages        AgentState["messages"]                                *)
(*   llm_input       the message list of the latest model call             *)
(*   label           the latest value returned by _should_continue         *)
(*   step            super-steps executed                                  *)
(*   next_id         source of fresh message ids                           *)
(*   running, finished   tool calls of the current ToolNode run that are   *)
(*                   executing / have returned (indices into the calls)    *)
(*   result          the value returned by invoke                          *)
(* History (observers, read by no action):                                 *)
(*   llm_calls, n_agent, n_tools   model calls made, agent and tools node  *)
(*                   executions completed                                  *)
(*   executed        tool executions begun, in order: <<turn, index, id>>  *)
(*   snapshots       what stream has yielded so far: one entry per node    *)
(*                   execution, the node's name and the messages it        *)
(*                   returned                                              *)
(* Direct calls, outside a graph run:                                      *)
(*   tool_name, tool_args, tool_out   a tool invoked on its own: which     *)
(*                   tool, its argument(s), the text it returned           *)
(*   replays         the updates returned by successive direct calls of    *)
(*                   _agent_node on the state in messages                  *)
(* The command-line drivers of main.py:                                    *)
(*   driver_fn       the driver running: "run_demo_queries",               *)
(*                   "run_single_query" or "none"                          *)
(*   verbose         its verbose argument                                  *)
(*   driver_pc       the statement the driver is at                        *)
(*   demo_i          the position in demo_queries (enumerate from 1)       *)
(*   runs            the graph runs the driver has started, in order:      *)
(*                   <<position of the query, "stream" or "invoke">>       *)
(*   printed         the responses the driver has printed                  *)
(***************************************************************************)
VARIABLES script, config, pc, mode, query, messages, llm_input, label, step,
          next_id, running, finished, result, llm_calls, n_agent, n_tools,
          executed, snapshots, tool_name, tool_args, tool_out, replays,
          driver_fn, verbose, driver_pc, demo_i, runs, printed

vars == <<script, config, pc, mode, query, messages, llm_input, label, step,
          next_id, running, finished, result, llm_calls, n_agent, n_tools,
          executed, snapshots, tool_name, tool_args, tool_out, replays,
          driver_fn, verbose, driver_pc, demo_i, runs, printed>>

\* The variables of a driver of main.py.
driver == <<driver_fn, verbose, driver_pc, demo_i, runs, printed>>

\* The variables of the direct calls and of the drivers, which a graph run
\* leaves alone.
aux == <<tool_name, tool_args, tool_out, replays, driver>>

\* No driver of main.py is running.
NoDriver ==
  /\ driver_fn = "none"
  /\ verbose = FALSE
  /\ driver_pc = "none"
  /\ demo_i = 0
  /\ runs = <<>>
  /\ printed = <<>>

Init ==
  /\ script \in Scripts
  /\ config \in AgentConfigs
  /\ pc = "idle"
  /\ mode = "none"
  /\ query = ""
  /\ messages = <<>>
  /\ llm_input = <<>>
  /\ label = "none"
  /\ step = 0
  /\ next_id = 1
  /\ running = {}
  /\ finished = {}
  /\ result = "none"
  /\ llm_calls = 0
  /\ n_agent = 0
  /\ n_tools = 0
  /\ executed = <<>>
  /\ snapshots = <<>>
  /\ tool_name = "none"
  /\ tool_args = <<>>
  /\ tool_out = <<>>
  /\ replays = <<>>
  /\ NoDriver

\* invoke(query) / stream(query): the initial state {"messages":
\* [HumanMessage(query)]} is written through the reducer and the entry point
\* "agent" is scheduled.
Start ==
  /\ pc = "idle"
  /\ \E q \in Queries, m \in Modes :
       /\ query' = q
       /\ mode' = m
       /\ messages' = add_messages(<<>>, <<HumanMessage(q)>>, next_id)
  /\ next_id' = next_id + 1
  /\ pc' = "agent"
  /\ UNCHANGED <<aux, snapshots, script, config, llm_input, label, step, running, finished,
                 result, llm_calls, n_agent, n_tools, executed>>

\* The agent node: one model call, its response appended through the reducer.
AgentNode ==
  /\ pc = "agent"
  /\ step < GraphRecursionLimit
  /\ ~Raises(script, agent_input(messages))
  /\ llm_input' = agent_input(messages)
  /\ llm_calls' = llm_calls + 1
  /\ messages' = add_messages(messages, agent_node(script, messages), next_id)
  /\ next_id' = next_id + Len(agent_node(script, messages))
  /\ n_agent' = n_agent + 1
  /\ step' = step + 1
  /\ pc' = "route"
  /\ snapshots' = stream_yield(mode, snapshots, "agent", agent_node(script, messages), next_id)
  /\ UNCHANGED <<aux, script, config, mode, query, label, running, finished, result,
                 n_tools, executed>>

\* Variant: the failed model call is tried again.
AgentNodeRaisesRetry ==
  /\ pc = "agent"
  /\ step < GraphRecursionLimit
  /\ Raises(script, agent_input(messages))
  /\ llm_input' = agent_input(messages)
  /\ llm_calls' = llm_calls + 1
  /\ pc' = "agent"
  /\ UNCHANGED <<aux, snapshots, script, config, mode, query, messages, label, step, next_id,
                 running, finished, result, n_agent, n_tools, executed>>

\* The agent node when the model call raises: nothing is returned, the
\* exception leaves graph.invoke / graph.stream.
AgentNodeRaises ==
  /\ pc = "agent"
  /\ step < GraphRecursionLimit
  /\ Raises(script, agent_input(messages))
  /\ llm_input' = agent_input(messages)
  /\ llm_calls' = llm_calls + 1
  /\ pc' = "model_error"
  /\ UNCHANGED <<aux, snapshots, script, config, mode, query, messages, label, step, next_id,
                 running, finished, result, n_agent, n_tools, executed>>

\* The conditional edge out of "agent"; at END invoke returns the content of
\* the last message.
ShouldContinue ==
  /\ pc = "route"
  /\ label' = should_continue(messages)
  /\ pc' = EdgeTarget(should_continue(messages))
  /\ result' = IF EdgeTarget(should_continue(messages)) = "done" /\ mode = "invoke"
                 THEN final_response(messages)
                 ELSE result
  /\ UNCHANGED <<aux, snapshots, script, config, mode, query, messages, llm_input, step,
                 next_id, running, finished, llm_calls, n_agent, n_tools,
                 executed>>

\* Variant: a call that has already returned may be started again.
ToolBeginAgain ==
  /\ pc = "tools"
  /\ step < GraphRecursionLimit
  /\ \E j \in DOMAIN PendingCalls(messages) \ running :
       /\ running' = running \cup {j}
       /\ finished' = finished \ {j}
       /\ executed' = Append(executed, <<n_tools + 1, j, PendingCalls(messages)[j].id>>)
  /\ UNCHANGED <<aux, snapshots, script, config, pc, mode, query, messages, llm_input, label,
                 step, next_id, result, llm_calls, n_agent, n_tools>>

\* ToolNode hands every tool call of the latest message to its executor
\* (executor.map): a call starts on a pool thread ...
ToolBegin ==
  /\ pc = "tools"
  /\ step < GraphRecursionLimit
  /\ \E j \in DOMAIN PendingCalls(messages) \ (running \cup finished) :
       /\ running' = running \cup {j}
       /\ finished' = finished
       /\ executed' = Append(executed, <<n_tools + 1, j, PendingCalls(messages)[j].id>>)
  /\ UNCHANGED <<aux, snapshots, script, config, pc, mode, query, messages, llm_input, label,
                 step, next_id, result, llm_calls, n_agent, n_tools>>

\* ... and returns.
ToolEnd ==
  /\ pc = "tools"
  /\ \E j \in running :
       /\ running' = running \ {j}
       /\ finished' = finished \cup {j}
  /\ UNCHANGED <<aux, snapshots, script, config, pc, mode, query, messages, llm_input, label,
                 step, next_id, result, llm_calls, n_agent, n_tools, executed>>

\* All calls returned: the ToolMessages are appended through the reducer in
\* the order of the calls, and the edge tools -> agent is taken.
ToolsJoin ==
  /\ pc = "tools"
  /\ finished = DOMAIN PendingCalls(messages)
  /\ messages' = add_messages(messages, tool_node(messages), next_id)
  /\ next_id' = next_id + Len(tool_node(messages))
  /\ running' = {}
  /\ finished' = {}
  /\ n_tools' = n_tools + 1
  /\ step' = step + 1
  /\ pc' = "agent"
  /\ snapshots' = stream_yield(mode, snapshots, "tools", tool_node(messages), next_id)
  /\ UNCHANGED <<aux, script, config, mode, query, llm_input, label, result,
                 llm_calls, n_agent, executed>>

\* The recursion guard of the graph run: a node is scheduled but the limit of
\* super-steps is used up.
RecursionError ==
  /\ pc \in {"agent", "tools"}
  /\ step >= GraphRecursionLimit
  /\ pc' = "out_of_steps"
  /\ UNCHANGED <<aux, snapshots, script, config, mode, query, messages, llm_input, label, step,
                 next_id, running, finished, result, llm_calls, n_agent,
                 n_tools, executed>>

Next ==
  \/ Start
  \/ AgentNode
  \/ AgentNodeRaises
  \/ ShouldContinue
  \/ ToolBegin
  \/ ToolEnd
  \/ ToolsJoin
  \/ RecursionError

Spec == Init /\ [][Next]_vars

\* The graph run is synchronous: once started it keeps taking steps until it
\* returns or raises.
FairSpec == Spec /\ WF_vars(Next)

(***************************************************************************)
(* The tools, invoked directly (tool.invoke(args)), outside a graph run.   *)
(***************************************************************************)
\* Largest magnitude of an operand handed to add and multiply.
MaxOperand == 3

\* A str in every mix of upper and lower case.
CaseVariants(cs) ==
  { [i \in DOMAIN cs |-> IF i \in up THEN upper_char(cs[i]) ELSE cs[i]] :
      up \in SUBSET DOMAIN cs }

\* Cities asked for: every table key in every mix of case, and strings that
\* are no key (empty, unknown, a key with a trailing blank, part of a key).
WeatherInputs ==
  UNION { CaseVariants(weather_data[i].city) : i \in DOMAIN weather_data }
    \cup { <<>>,
           <<"a", "t", "l", "a", "n", "t", "i", "s">>,
           <<"A", "t", "l", "a", "n", "t", "i", "s">>,
           <<"t", "o", "k", "y", "o", " ">>,
           <<"y", "o", "r", "k">> }

\* Longest expression, in tokens, over all the tokens.
MaxTokens == 4

Tokens == NumberTokens \cup NameTokens \cup StringTokens \cup {"+", "-", "*", "%", "//", "(", ")"}

\* Longer expressions: precedence, grouping, chains, a zero divisor inside
\* parentheses, a call on a string literal.
LongExpressions ==
  { <<"2", "+", "3", "*", "2">>,
    <<"(", "2", "+", "3", ")", "*", "2">>,
    <<"2", "-", "3", "-", "2">>,
    <<"3", "%", "(", "2", "-", "2", ")">>,
    <<"-", "(", "3", "*", "3", ")", "%", "(", "-", "2", ")">>,
    <<"3", "//", "2", "+", "'os'", "%", "(", ")">>,
    <<"abs", "(", "2", "-", "3", ")", "*", "3">> }

CalculatorInputs == UNION { [1..n -> Tokens] : n \in 0..MaxTokens } \cup LongExpressions

\* Longest query, in words.
MaxWords == 2

\* Words of a query: the words of the topic keys in the case a user writes
\* them, a word that holds a key word inside it, a part of a key, a word
\* that matches nothing.
QueryWords ==
  { <<"L", "a", "n", "g", "G", "r", "a", "p", "h">>,
    <<"R", "e", "A", "c", "t">>,
    <<"a", "g", "e", "n", "t">>,
    <<"G", "e", "m", "i", "n", "i">>,
    <<"A", "P", "I">>,
    <<"L", "a", "n", "g", "C", "h", "a", "i", "n">>,
    <<"P", "y", "t", "h", "o", "n">>,
    <<"w", "e", "a", "t", "h", "e", "r">>,
    <<"c", "a", "p", "i", "t", "a", "l">>,
    <<"z", "z", "z", "_", "n", "o", "_", "m", "a", "t", "c", "h">>,
    <<"l", "a", "n", "g">> }

RECURSIVE QueriesOf(_)
QueriesOf(n) ==
  IF n = 0 THEN { <<>> }
  ELSE QueryWords
         \cup { q \o <<" ">> \o w : q \in QueriesOf(n - 1) \ { <<>> }, w \in QueryWords }

SearchInputs == QueriesOf(MaxWords) \cup { <<>>, <<"z", "z", "z">> }

\* add and multiply declare float parameters: the tool's argument schema
\* turns whole numbers into floats before the function runs.
NumberPairs == (-MaxOperand..MaxOperand) \X (-MaxOperand..MaxOperand)

ToolInputs(name) ==
  CASE name = "calculator" -> CalculatorInputs
    [] name = "add" -> NumberPairs
    [] name = "multiply" -> NumberPairs
    [] name = "get_weather" -> WeatherInputs
    [] name = "web_search" -> SearchInputs

\* str(x) of a float with a whole value; negative carries the sign of a zero.
float_str(whole, negative) ==
  IF whole = 0 /\ negative THEN "-0.0" ELSE ToString(whole) \o ".0"

\* Variant: add subtracts.
add_minus(a, b) == <<"Result: ", float_str(a - b, FALSE)>>

add(a, b) == <<"Result: ", float_str(a + b, FALSE)>>

\* Variant: multiply adds.
multiply_plus(a, b) == <<"Result: ", float_str(a + b, FALSE)>>

\* The product of two floats is negative, a zero included, when exactly one
\* factor is negative (a whole number 0 becomes the float 0.0, never -0.0).
multiply(a, b) == <<"Result: ", float_str(a * b, (a < 0) # (b < 0))>>

ToolInit ==
  /\ script = [cycle |-> <<<<ToolCall("calculator", <<"2", "+", "2">>, "call_a")>>>>,
               final_at |-> 0, final_fails |-> FALSE, unique_ids |-> TRUE]
  /\ config = [max_iterations |-> max_iterations, recursion_limit |-> recursion_limit]
  /\ pc = "idle"
  /\ mode = "none"
  /\ query = ""
  /\ messages = <<>>
  /\ llm_input = <<>>
  /\ label = "none"
  /\ step = 0
  /\ next_id = 1
  /\ running = {}
  /\ finished = {}
  /\ result = "none"
  /\ llm_calls = 0
  /\ n_agent = 0
  /\ n_tools = 0
  /\ executed = <<>>
  /\ snapshots = <<>>
  /\ replays = <<>>
  /\ tool_name \in {"calculator", "add", "multiply", "get_weather", "web_search"}
  /\ tool_args \in ToolInputs(tool_name)
  /\ tool_out = <<>>
  /\ NoDriver

loop == <<script, config, pc, mode, query, messages, llm_input, label, step,
          next_id, running, finished, result, llm_calls, n_agent, n_tools,
          executed, snapshots>>

CallCalculator ==
  /\ tool_name = "calculator"
  /\ tool_out = <<>>
  /\ tool_out' = calculator(tool_args)
  /\ UNCHANGED <<loop, tool_name, tool_args, replays, driver>>

CallAdd ==
  /\ tool_name = "add"
  /\ tool_out = <<>>
  /\ tool_out' = add(tool_args[1], tool_args[2])
  /\ UNCHANGED <<loop, tool_name, tool_args, replays, driver>>

CallMultiply ==
  /\ tool_name = "multiply"
  /\ tool_out = <<>>
  /\ tool_out' = multiply(tool_args[1], tool_args[2])
  /\ UNCHANGED <<loop, tool_name, tool_args, replays, driver>>

CallGetWeather ==
  /\ tool_name = "get_weather"
  /\ tool_out = <<>>
  /\ tool_out' = get_weather(tool_args)
  /\ UNCHANGED <<loop, tool_name, tool_args, replays, driver>>

CallWebSearch ==
  /\ tool_name = "web_search"
  /\ tool_out = <<>>
  /\ tool_out' = web_search(tool_args)
  /\ UNCHANGED <<loop, tool_name, tool_args, replays, driver>>

ToolNext ==
  \/ CallCalculator
  \/ CallAdd
  \/ CallMultiply
  \/ CallGetWeather
  \/ CallWebSearch

ToolSpec == ToolInit /\ [][ToolNext]_vars

\* The direct call of the named tool has returned.
Returned(name) == tool_name = name /\ tool_out # <<>>

(***************************************************************************)
(* The Reasoning Step, called directly (_agent_node(state)) and more than  *)
(* once on one Conversation state.                                         *)
(***************************************************************************)
\* Most turns of Reasoning and Acting behind the state that is replayed.
MaxTurns == 2

\* The log after k turns that each requested tools: the query, then per
\* turn the Assistant message and its tool results, as the graph builds it.
RECURSIVE LogAfter(_, _, _)
LogAfter(s, q, k) ==
  IF k = 0 THEN add_messages(<<>>, <<HumanMessage(q)>>, 1)
  ELSE LET before == LogAfter(s, q, k - 1)
           asked == add_messages(before, agent_node(s, before), Len(before) + 1)
       IN add_messages(asked, tool_node(asked), Len(asked) + 1)

\* Variant: the system prompt is inserted into the state's own list.
agent_node_state_in_place(msgs) == agent_input(msgs)

\* _agent_node, lines 138-142: state["messages"] after the call.  The name
\* messages is rebound to a new list ([SystemMessage(...)] + list(messages));
\* the list held by the state is not written.
agent_node_state(msgs) == msgs

ReplayInit ==
  /\ script \in {s \in Scripts : ~s.final_fails}
  /\ config = [max_iterations |-> max_iterations, recursion_limit |-> recursion_limit]
  /\ pc = "idle"
  /\ mode = "none"
  /\ query \in Queries
  /\ \E k \in 0..MaxTurns :
       /\ script.final_at = 0 \/ k < script.final_at
       /\ messages = LogAfter(script, query, k)
       /\ n_agent = k
       /\ n_tools = k
       /\ llm_calls = k
  /\ llm_input = <<>>
  /\ label = "none"
  /\ step = 0
  /\ next_id = Len(messages) + 1
  /\ running = {}
  /\ finished = {}
  /\ result = "none"
  /\ executed = <<>>
  /\ snapshots = <<>>
  /\ replays = <<>>
  /\ tool_name = "none"
  /\ tool_args = <<>>
  /\ tool_out = <<>>
  /\ NoDriver

\* One direct call of _agent_node on the state; the update it returns is
\* kept, not applied.
ReplayAgentNode ==
  /\ Len(replays) < 2
  /\ llm_input' = agent_input(messages)
  /\ llm_calls' = llm_calls + 1
  /\ replays' = Append(replays, agent_node(script, messages))
  /\ messages' = agent_node_state(messages)
  /\ UNCHANGED <<script, config, pc, mode, query, label, step, next_id, running,
                 finished, result, n_agent, n_tools, executed, snapshots,
                 tool_name, tool_args, tool_out, driver>>

ReplayNext == ReplayAgentNode

ReplaySpec == ReplayInit /\ [][ReplayNext]_vars

(***************************************************************************)
(* The command-line drivers (main.py): run_demo_queries and                *)
(* run_single_query hand queries to agent.stream and agent.invoke, each    *)
(* call being one run of the graph from a fresh initial state.             *)
(***************************************************************************)
\* The predefined list of run_demo_queries.
demo_queries ==
  << "What is 25 multiplied by 4, then add 50?",
     "What is LangGraph and how does it work?",
     "What is the current date and time?",
     "What's the weather like in Tokyo?",
     "If I have 3 apples costing $2 each and 5 oranges costing $1.50 each, what's my total cost?" >>

\* What the model answers in a driver's runs: one request, then a final
\* answer at the first, second or no call, which may fail.
DemoScripts ==
  {s \in Scripts : Len(s.cycle) = 1 /\ s.unique_ids /\ s.final_at <= 2}

\* A driver is entered with a constructed agent; run_single_query is given
\* its query, run_demo_queries starts its list at position 1.
DemoInit ==
  /\ script \in DemoScripts
  /\ config = [max_iterations |-> max_iterations, recursion_limit |-> recursion_limit]
  /\ pc = "idle"
  /\ mode = "none"
  /\ driver_fn \in {"run_demo_queries", "run_single_query"}
  /\ query \in IF driver_fn = "run_single_query" THEN Queries ELSE {""}
  /\ verbose \in BOOLEAN
  /\ driver_pc = "if_verbose"
  /\ demo_i = IF driver_fn = "run_demo_queries" THEN 1 ELSE 0
  /\ runs = <<>>
  /\ printed = <<>>
  /\ messages = <<>>
  /\ llm_input = <<>>
  /\ label = "none"
  /\ step = 0
  /\ next_id = 1
  /\ running = {}
  /\ finished = {}
  /\ result = "none"
  /\ llm_calls = 0
  /\ n_agent = 0
  /\ n_tools = 0
  /\ executed = <<>>
  /\ snapshots = <<>>
  /\ tool_name = "none"
  /\ tool_args = <<>>
  /\ tool_out = <<>>
  /\ replays = <<>>

\* agent.invoke(q) / agent.stream(q) called by a driver: a new run of the
\* graph on the initial state {"messages": [HumanMessage(q)]}, recorded in
\* runs under the position at of the query.
BeginRun(q, m, at) ==
  /\ query' = q
  /\ mode' = m
  /\ messages' = add_messages(<<>>, <<HumanMessage(q)>>, 1)
  /\ next_id' = 2
  /\ pc' = "agent"
  /\ llm_input' = <<>>
  /\ label' = "none"
  /\ step' = 0
  /\ running' = {}
  /\ finished' = {}
  /\ result' = "none"
  /\ llm_calls' = 0
  /\ n_agent' = 0
  /\ n_tools' = 0
  /\ executed' = <<>>
  /\ snapshots' = <<>>
  /\ runs' = Append(runs, <<at, m>>)
  /\ UNCHANGED <<script, config, tool_name, tool_args, tool_out, replays,
                 driver_fn, verbose>>

\* The end of one pass of the for loop of run_demo_queries: the final
\* response is printed and enumerate moves on, or the list is exhausted.
DemoPrinted(final) ==
  /\ printed' = Append(printed, final)
  /\ demo_i' = demo_i + 1
  /\ driver_pc' = IF demo_i < Len(demo_queries) THEN "if_verbose" ELSE "returned"
  /\ UNCHANGED <<loop, tool_name, tool_args, tool_out, replays, driver_fn,
                 verbose, runs>>

\* run_demo_queries, verbose: for step in agent.stream(query).
DemoStream ==
  /\ driver_fn = "run_demo_queries"
  /\ driver_pc = "if_verbose"
  /\ verbose
  /\ BeginRun(demo_queries[demo_i], "stream", demo_i)
  /\ driver_pc' = "stream"
  /\ UNCHANGED <<demo_i, printed>>

\* run_demo_queries, not verbose: response = agent.invoke(query).
DemoInvoke ==
  /\ driver_fn = "run_demo_queries"
  /\ driver_pc = "if_verbose"
  /\ ~verbose
  /\ BeginRun(demo_queries[demo_i], "invoke", demo_i)
  /\ driver_pc' = "invoke"
  /\ UNCHANGED <<demo_i, printed>>

\* final_response = agent.invoke(query) if not verbose else "See steps
\* above", not verbose: the query is handed to agent.invoke, the response of
\* the run that has returned being left in a variable that is not read.
DemoFinalInvoke ==
  /\ driver_fn = "run_demo_queries"
  /\ driver_pc = "invoke"
  /\ pc = "done"
  /\ ~verbose
  /\ BeginRun(demo_queries[demo_i], "invoke", demo_i)
  /\ driver_pc' = "final_invoke"
  /\ UNCHANGED <<demo_i, printed>>

\* The same statement, verbose: once the stream is exhausted the final
\* response is the literal text, and it is printed.
DemoSeeStepsAbove ==
  /\ driver_fn = "run_demo_queries"
  /\ driver_pc = "stream"
  /\ pc = "done"
  /\ verbose
  /\ DemoPrinted("See steps above")

\* Not verbose: the second invoke has returned and its response is printed.
DemoPrintFinal ==
  /\ driver_fn = "run_demo_queries"
  /\ driver_pc = "final_invoke"
  /\ pc = "done"
  /\ DemoPrinted(result)

\* run_single_query, verbose: for step in agent.stream(query).
SingleStream ==
  /\ driver_fn = "run_single_query"
  /\ driver_pc = "if_verbose"
  /\ verbose
  /\ BeginRun(query, "stream", 0)
  /\ driver_pc' = "stream"
  /\ UNCHANGED <<demo_i, printed>>

\* run_single_query: response = agent.invoke(query), reached at once when
\* not verbose and after the stream is exhausted when verbose.
SingleInvoke ==
  /\ driver_fn = "run_single_query"
  /\ \/ driver_pc = "if_verbose" /\ ~verbose
     \/ driver_pc = "stream" /\ pc = "done"
  /\ BeginRun(query, "invoke", 0)
  /\ driver_pc' = "final_invoke"
  /\ UNCHANGED <<demo_i, printed>>

\* run_single_query prints and returns the response.
SingleReturn ==
  /\ driver_fn = "run_single_query"
  /\ driver_pc = "final_invoke"
  /\ pc = "done"
  /\ printed' = Append(printed, result)
  /\ driver_pc' = "returned"
  /\ UNCHANGED <<loop, tool_name, tool_args, tool_out, replays, driver_fn,
                 verbose, demo_i, runs>>

\* Neither driver catches: an exception of a run (the model call raising,
\* GraphRecursionError) leaves the driver, to main's "Fatal Error" handler.
DriverRaises ==
  /\ driver_pc \in {"stream", "invoke", "final_invoke"}
  /\ pc \in {"model_error", "out_of_steps"}
  /\ driver_pc' = "raised"
  /\ UNCHANGED <<loop, tool_name, tool_args, tool_out, replays, driver_fn,
                 verbose, demo_i, runs, printed>>

\* A run started by a driver takes the steps of the graph.
DemoNext ==
  \/ DemoStream
  \/ DemoInvoke
  \/ DemoFinalInvoke
  \/ DemoSeeStepsAbove
  \/ DemoPrintFinal
  \/ SingleStream
  \/ SingleInvoke
  \/ SingleReturn
  \/ DriverRaises
  \/ AgentNode
  \/ AgentNodeRaises
  \/ ShouldContinue
  \/ ToolBegin
  \/ ToolEnd
  \/ ToolsJoin
  \/ RecursionError

DemoSpec == DemoInit /\ [][DemoNext]_vars

(***************************************************************************)
(* Properties.                                                             *)
(***************************************************************************)
\* The loop state of spec section 4.4 that a position of the graph is in.
LoopState ==
  CASE pc = "idle" -> "Idle"
    [] pc \in {"agent", "route"} -> "Reason"
    [] pc = "tools" -> "Act"
    [] pc = "done" -> "Done"
    [] OTHER -> "Aborted"

ToolResultsOf(msgs) == {i \in DOMAIN msgs : msgs[i].type = "tool"}

SystemsOf(msgs) == {i \in DOMAIN msgs : msgs[i].type = "system"}

\* C1: every evaluation of the continuation predicate (the step out of
\* "route", where the last message is the Assistant message just appended)
\* yields "continue" exactly when that message carries one or more tool calls
\* and "end" otherwise, yields no other label, and leaves the conversation
\* as it was.
C1_ContinuationPredicate ==
  [][pc = "route" =>
       /\ Last(messages).type = "ai"
       /\ label' \in {"continue", "end"}
       /\ (label' = "continue") <=> (Len(Last(messages).tool_calls) >= 1)
       /\ messages' = messages]_vars

C1_Witness ==
  /\ label = "continue"
  /\ pc = "tools"
  /\ n_agent = 2
  /\ Len(Last(messages).tool_calls) = 1

\* C2: the loop starts in Reason; Reason -> Act is taken only on "continue",
\* Reason -> Done only on "end", Act is left only towards Reason (or by the
\* run being aborted), Done is never left, and agent and tools executions
\* alternate strictly, beginning with the agent.
C2_LoopTransitions ==
  [][/\ LoopState = "Idle" => LoopState' \in {"Idle", "Reason"}
     /\ LoopState = "Reason" => LoopState' \in {"Reason", "Act", "Done", "Aborted"}
     /\ (LoopState = "Reason" /\ LoopState' = "Act") =>
          (label' = "continue" /\ Last(messages).tool_calls # <<>>)
     /\ (LoopState = "Reason" /\ LoopState' = "Done") =>
          (label' = "end" /\ Last(messages).tool_calls = <<>>)
     /\ LoopState = "Act" => LoopState' \in {"Act", "Reason", "Aborted"}
     /\ LoopState = "Done" => LoopState' = "Done"
     /\ n_agent' # n_agent => (n_agent' = n_agent + 1 /\ n_tools = n_agent)
     /\ n_tools' # n_tools => (n_tools' = n_tools + 1 /\ n_agent = n_tools + 1)
    ]_vars

C2_Witness ==
  /\ pc = "done"
  /\ n_agent = 3
  /\ n_tools = 2

\* C3: a run never executes more Reasoning Steps than AgentConfig.max_iterations
\* nor more super-steps than AgentConfig.recursion_limit.
C3_StopsAtConfiguredBound ==
  /\ n_agent <= config.max_iterations
  /\ step <= config.recursion_limit

\* C4 (original): whenever the stub's final_at-th response is the first one
\* without tool calls and no model call fails, the run is not cut short: it
\* is never ended by the recursion guard.
C4_AlwaysReachesDone ==
  pc = "out_of_steps" => (script.final_at = 0 \/ script.final_fails)

\* The stub stops requesting tools at a call the recursion limit lets happen.
FinalWithinLimit ==
  /\ pc = "agent"
  /\ script.final_at >= 1
  /\ ~script.final_fails
  /\ 2 * script.final_at - 1 <= GraphRecursionLimit

AtDone == pc = "done"

\* C4 (amended): if the k-th response is the first without tool calls, no
\* model call fails and the 2k-1 super-steps fit in the recursion limit, the
\* run reaches Done; at Done exactly k Reasoning Steps, k model calls and
\* k-1 Acting Steps were executed, and none is executed after the k-th
\* response.
C4_ReachesDoneWithinLimit ==
  /\ [](pc = "done" =>
          /\ ~script.final_fails
          /\ n_agent = script.final_at
          /\ llm_calls = script.final_at
          /\ n_tools = script.final_at - 1)
  /\ [][(script.final_at >= 1 /\ n_agent = script.final_at) =>
          (n_agent' = n_agent /\ n_tools' = n_tools /\ llm_calls' = llm_calls)]_vars
  /\ FinalWithinLimit ~> AtDone

C4_Witness ==
  /\ pc = "done"
  /\ script.final_at = 3
  /\ n_agent = 3
  /\ n_tools = 2

\* C5: every model call is handed the system message followed by the whole
\* conversation log as it is at that moment, in order; that list holds
\* exactly one System message, at index 1 (the list's first position).
C5_ModelInput ==
  [][llm_calls' # llm_calls =>
       /\ llm_calls' = llm_calls + 1
       /\ llm_input' = <<SystemMessage(REACT_SYSTEM_PROMPT)>> \o messages
       /\ SystemsOf(llm_input') = {1}]_vars

C5_Witness ==
  /\ llm_calls = 2
  /\ Len(llm_input) >= 4
  /\ llm_input[1].type = "system"
  /\ llm_input[4].type = "tool"

\* C6 (original): once the first Reasoning Step has completed, the
\* conversation log held by the loop has a System message at its first
\* position.
C6_SystemInLog ==
  n_agent >= 1 => messages[1].type = "system"

\* C6 (amended): the System message is never stored in the conversation log:
\* at every moment of a run the log holds no System message and starts with
\* the Human message of the query, while the list handed to the model at each
\* Reasoning Step starts with the one System message, injected anew each time.
C6_SystemOnlyInModelInput ==
  /\ SystemsOf(messages) = {}
  /\ pc # "idle" => (messages[1].type = "human" /\ messages[1].content = query)
  /\ llm_calls >= 1 => llm_input[1] = SystemMessage(REACT_SYSTEM_PROMPT)

C6_Witness ==
  /\ pc = "done"
  /\ n_agent >= 2
  /\ messages[1].type = "human"
  /\ llm_input[1].type = "system"

\* C7: every step of a run leaves the log it found as a prefix of the log it
\* leaves: messages are only appended, none removed, replaced, reordered or
\* modified; the log holds as many messages as were appended.
C7_AppendOnly ==
  [][/\ Len(messages') >= Len(messages)
     /\ SubSeq(messages', 1, Len(messages)) = messages
     /\ Len(messages') = next_id' - 1]_vars

C7_Witness ==
  /\ pc = "agent"
  /\ n_tools = 2
  /\ Len(messages) >= 5

\* C8: a Reasoning Step that succeeds makes exactly one model call and
\* appends exactly one message to the log, an Assistant message; it starts or
\* completes no tool execution and appends no Human or ToolResult message.
C8_ReasoningStepEffect ==
  [][n_agent' # n_agent =>
       /\ llm_calls' = llm_calls + 1
       /\ Len(messages') = Len(messages) + 1
       /\ SubSeq(messages', 1, Len(messages)) = messages
       /\ Last(messages').type = "ai"
       /\ executed' = executed
       /\ running' = running
       /\ finished' = finished
       /\ n_tools' = n_tools]_vars

C8_Witness ==
  /\ pc = "route"
  /\ n_agent = 2
  /\ llm_calls = 2
  /\ Len(Last(messages).tool_calls) = 2

\* The tool executions of the Acting Step in progress (or just completed when
\* turn = n_tools), as indices into the turn's tool calls, in starting order.
StartedIn(turn) ==
  LET idx == {i \in DOMAIN executed : executed[i][1] = turn}
  IN [k \in 1..Cardinality(idx) |->
        executed[CHOOSE i \in idx : Cardinality({h \in idx : h <= i}) = k][2]]

\* C9 (original): the tool calls of a turn are executed one at a time, in the
\* order the model produced them, and no two executions overlap.
C9_OneAtATimeInOrder ==
  /\ Cardinality(running) <= 1
  /\ \A k \in DOMAIN StartedIn(n_tools + 1) : StartedIn(n_tools + 1)[k] = k

\* C9 (amended): an Acting Step returns control to the Reasoning Step only
\* when every tool call of the latest Assistant message has been executed,
\* each exactly once, and it then appends exactly one ToolResult per call, in
\* the order the model produced the calls (the executions themselves may
\* overlap and start in any order).
C9_OneResultPerCallInOrder ==
  [][(pc = "tools" /\ pc' # "tools" /\ pc' # "out_of_steps") =>
       LET calls == Last(messages).tool_calls IN
       /\ pc' = "agent"
       /\ n_tools' = n_tools + 1
       /\ running = {}
       /\ finished = DOMAIN calls
       /\ Len(StartedIn(n_tools + 1)) = Len(calls)
       /\ \A j \in DOMAIN calls : \E k \in DOMAIN calls : StartedIn(n_tools + 1)[k] = j
       /\ Len(messages') = Len(messages) + Len(calls)
       /\ SubSeq(messages', 1, Len(messages)) = messages
       /\ \A j \in DOMAIN calls :
            /\ messages'[Len(messages) + j].type = "tool"
            /\ messages'[Len(messages) + j].tool_call_id = calls[j].id
            /\ messages'[Len(messages) + j].name = calls[j].name
            /\ messages'[Len(messages) + j].content = RunOne(calls[j]).content]_vars

C9_Witness ==
  /\ pc = "agent"
  /\ n_tools = 1
  /\ Len(messages) = 4
  /\ messages[3].name = "get_weather"
  /\ messages[4].name = "web_search"
  /\ StartedIn(1) = <<2, 1>>

\* The index of the nearest Assistant message before position p (0: none).
NearestAI(msgs, p) ==
  LET before == {a \in 1..(p - 1) : msgs[a].type = "ai"}
  IN IF before = {} THEN 0 ELSE CHOOSE a \in before : \A b \in before : b <= a

AIsOf(msgs) == {a \in DOMAIN msgs : msgs[a].type = "ai"}

\* C10 (original): every ToolResult carries the identifier of a tool call of
\* the nearest preceding Assistant message, and at Done every tool call ever
\* requested has exactly one ToolResult with its identifier in the log.
C10_ExactlyOneResultPerId ==
  /\ \A p \in ToolResultsOf(messages) :
       /\ NearestAI(messages, p) # 0
       /\ \E j \in DOMAIN messages[NearestAI(messages, p)].tool_calls :
            messages[NearestAI(messages, p)].tool_calls[j].id = messages[p].tool_call_id
  /\ pc = "done" =>
       \A a \in AIsOf(messages) : \A j \in DOMAIN messages[a].tool_calls :
         Cardinality({p \in ToolResultsOf(messages) :
                        messages[p].tool_call_id = messages[a].tool_calls[j].id}) = 1

\* C10 (amended): every ToolResult carries the identifier of the tool call at
\* its own position in the nearest preceding Assistant message, and at Done
\* every tool call occurrence is answered by exactly one ToolResult, the one
\* at its position in the block of ToolResults that follows its Assistant
\* message (identifiers the model repeats are carried by several ToolResults).
C10_ResultsAnswerCalls ==
  /\ \A p \in ToolResultsOf(messages) :
       LET a == NearestAI(messages, p) IN
       /\ a # 0
       /\ p - a \in DOMAIN messages[a].tool_calls
       /\ messages[p].tool_call_id = messages[a].tool_calls[p - a].id
  /\ pc = "done" =>
       \A a \in AIsOf(messages) :
         /\ \A j \in DOMAIN messages[a].tool_calls :
              /\ a + j \in ToolResultsOf(messages)
              /\ messages[a + j].tool_call_id = messages[a].tool_calls[j].id
         /\ a + Len(messages[a].tool_calls) + 1 \notin ToolResultsOf(messages)

C10_Witness ==
  /\ pc = "done"
  /\ n_tools = 2
  /\ ~script.unique_ids
  /\ \E p, q \in ToolResultsOf(messages) :
       p # q /\ messages[p].tool_call_id = messages[q].tool_call_id

\* The k-th Assistant message of the log (the response of model call k).
AIMessageOfTurn(msgs, k) ==
  msgs[CHOOSE a \in AIsOf(msgs) : Cardinality({b \in AIsOf(msgs) : b <= a}) = k]

\* C11 (original): within one run no tool call identifier is executed by the
\* Acting Step more than once.
C11_AtMostOncePerId ==
  \A i, k \in DOMAIN executed : i # k => executed[i][3] # executed[k][3]

\* C11 (amended): within one run no tool call occurrence (one entry of the
\* tool_calls of one Assistant message) is executed more than once, and every
\* execution is that of a call of the Assistant message of its turn, under
\* that call's identifier; hence an identifier is executed once for every
\* occurrence of it that reaches the Acting Step, and an identifier the model
\* issues once is executed at most once.
C11_AtMostOncePerOccurrence ==
  /\ \A i, k \in DOMAIN executed :
       i # k => <<executed[i][1], executed[i][2]>> # <<executed[k][1], executed[k][2]>>
  /\ \A i \in DOMAIN executed :
       /\ executed[i][1] \in 1..n_agent
       /\ executed[i][2] \in DOMAIN AIMessageOfTurn(messages, executed[i][1]).tool_calls
       /\ executed[i][3] = AIMessageOfTurn(messages, executed[i][1]).tool_calls[executed[i][2]].id
  /\ script.unique_ids => C11_AtMostOncePerId

C11_Witness ==
  /\ ~script.unique_ids
  /\ pc = "done"
  /\ \E i, k \in DOMAIN executed :
       /\ executed[i][1] = 1
       /\ executed[k][1] = 2
       /\ executed[i][3] = executed[k][3]

\* C13: a model call that fails ends the run with the error raised to the
\* caller: the failed call appends no message and returns no result, it is
\* the run's last model call (no retry), and after it no Reasoning or Acting
\* Step runs and nothing more is executed or appended.
C13_ModelFailureIsFatal ==
  [][/\ (llm_calls' # llm_calls /\ n_agent' = n_agent) =>
          /\ pc' = "model_error"
          /\ llm_calls' = llm_calls + 1
          /\ llm_calls' = script.final_at
          /\ messages' = messages
          /\ Last(messages').type # "ai"
          /\ result' = "none"
     /\ pc = "model_error" =>
          /\ pc' = "model_error"
          /\ llm_calls' = llm_calls
          /\ n_agent' = n_agent
          /\ n_tools' = n_tools
          /\ messages' = messages
          /\ executed' = executed]_vars

C13_Witness ==
  /\ pc = "model_error"
  /\ llm_calls = 3
  /\ n_agent = 2
  /\ n_tools = 2
  /\ Last(messages).type = "tool"

\* C14: whenever the loop is in Done, the last message of the log is an
\* Assistant message without tool calls and what invoke returns is the text
\* of that message, which is the content of no Human, System or ToolResult
\* message of the log; before Done invoke has returned nothing.
C14_DoneResult ==
  /\ pc = "done" =>
       /\ Last(messages).type = "ai"
       /\ Last(messages).tool_calls = <<>>
       /\ mode = "invoke" =>
            /\ result = Last(messages).content
            /\ \A i \in DOMAIN messages :
                 messages[i].type # "ai" => messages[i].content # result
  /\ pc # "done" => result = "none"

C14_Witness ==
  /\ pc = "done"
  /\ mode = "invoke"
  /\ result = "final answer"
  /\ n_tools = 2

\* The messages of a sequence of snapshots, in the order yielded.
RECURSIVE SnapshotMessages(_)
SnapshotMessages(yielded) ==
  IF yielded = <<>> THEN <<>>
  ELSE SnapshotMessages(SubSeq(yielded, 1, Len(yielded) - 1)) \o Last(yielded).messages

\* A snapshot of the agent node whose Assistant message requests no tool.
FinalAgentSnapshot(snap) ==
  /\ snap.node = "agent"
  /\ Len(snap.messages) = 1
  /\ snap.messages[1].type = "ai"
  /\ snap.messages[1].tool_calls = <<>>

\* The stream is over: the loop reached Done or the run was aborted.
StreamOver == mode = "stream" /\ pc \in {"done", "model_error", "out_of_steps"}

\* C15 as stated: whenever the snapshot sequence of stream(query) has ended,
\* its last snapshot is an agent snapshot whose Assistant message has no
\* ToolCalls.
C15_LastSnapshotIsFinalAgent ==
  StreamOver => (snapshots # <<>> /\ FinalAgentSnapshot(Last(snapshots)))

\* C15, amended: stream(query) yields exactly one snapshot per node execution,
\* in execution order, each carrying the messages that node appended to the
\* log; the snapshots alternate agent, tools, agent, ... starting with an
\* agent snapshot; nothing is yielded after an agent snapshot whose Assistant
\* message has no ToolCalls; and when the loop reaches Done the last snapshot
\* is such an agent snapshot.  A stream cut short by a model failure or by
\* the recursion limit ends on whatever snapshot came last.  invoke yields
\* nothing.
C15_OneSnapshotPerNodeExecution ==
  /\ mode # "stream" => snapshots = <<>>
  /\ mode = "stream" =>
       /\ Len(snapshots) = n_agent + n_tools
       /\ SnapshotMessages(snapshots) = Tail(messages)
       /\ \A i \in DOMAIN snapshots :
            /\ snapshots[i].node = (IF i % 2 = 1 THEN "agent" ELSE "tools")
            /\ FinalAgentSnapshot(snapshots[i]) => i = Len(snapshots)
       /\ pc = "done" => (snapshots # <<>> /\ FinalAgentSnapshot(Last(snapshots)))

C15_Witness ==
  /\ mode = "stream"
  /\ pc = "done"
  /\ Len(snapshots) = 5
  /\ snapshots[4].node = "tools"
  /\ Len(snapshots[4].messages) = 2

\* Two strs that differ at most in the case of their letters.
SameIgnoringCase(a, b) ==
  /\ Len(a) = Len(b)
  /\ \A i \in DOMAIN a :
       \/ a[i] = b[i]
       \/ \E k \in DOMAIN LowerCase :
            {a[i], b[i]} = {LowerCase[k], UpperCase[k]}

\* The text of a temperature given in tenths of a degree.
Tenths(t) == ToString(t \div 10) \o "." \o ToString(t % 10)

\* C18: get_weather(city) is a case-insensitive lookup.  For a city that is
\* one of the six table keys up to the case of its letters, the text holds
\* that city's Fahrenheit temperature and the Celsius value nearest to
\* (F-32)*5/9 with one decimal (tokyo: 55 and 12.8), with the city's
\* condition and humidity; for every other string it returns a message that
\* lists all six known cities.
C18_WeatherLookup ==
  Returned("get_weather") =>
    /\ \A i \in DOMAIN weather_data :
         SameIgnoringCase(tool_args, weather_data[i].city) =>
           /\ Len(tool_out) = 11
           /\ tool_out[1] = "Weather in "
           /\ tool_out[4] = ToString(weather_data[i].temp)
           /\ tool_out[5] = DegreeSign \o "F ("
           /\ \E t \in 0..1000 :
                /\ tool_out[6] = Tenths(t)
                /\ 2 * (50 * (weather_data[i].temp - 32) - 9 * t) \in -9..9
           /\ tool_out[7] = DegreeSign \o "C)\n- Condition: "
           /\ tool_out[8] = weather_data[i].condition
           /\ tool_out[10] = ToString(weather_data[i].humidity)
    /\ SameIgnoringCase(tool_args, <<"t", "o", "k", "y", "o">>) =>
         (tool_out[4] = "55" /\ tool_out[6] = "12.8")
    /\ (\A i \in DOMAIN weather_data :
          ~SameIgnoringCase(tool_args, weather_data[i].city)) =>
         /\ tool_out[1] = "Weather data not available for '"
         /\ tool_out[2] = Str(tool_args)
         /\ \A i \in DOMAIN weather_data :
              \E j \in 4..Len(tool_out) : tool_out[j] = Str(weather_data[i].city)

C18_Witness ==
  /\ Returned("get_weather")
  /\ tool_args = <<"T", "o", "K", "Y", "o">>
  /\ tool_out[2] = "Tokyo"
  /\ tool_out[6] = "12.8"

\* The words of each topic key, in knowledge-base order.
TopicWords ==
  << { <<"l", "a", "n", "g", "g", "r", "a", "p", "h">> },
     { <<"r", "e", "a", "c", "t">>, <<"a", "g", "e", "n", "t">> },
     { <<"g", "e", "m", "i", "n", "i">>, <<"a", "p", "i">> },
     { <<"l", "a", "n", "g", "c", "h", "a", "i", "n">> },
     { <<"p", "y", "t", "h", "o", "n">> },
     { <<"w", "e", "a", "t", "h", "e", "r">> } >>

\* The word occurs somewhere in the query, whatever the case of the letters.
OccursIgnoringCase(word, q) ==
  \E i \in 0..(Len(q) - Len(word)) :
    SameIgnoringCase(SubSeq(q, i + 1, i + Len(word)), word)

\* A topic record matches a query when a word of its key occurs in it (the
\* whole key occurs only if its words do).
TopicMatches(i, q) == \E w \in TopicWords[i] : OccursIgnoringCase(w, q)

\* The text is the fallback.
IsFallback(out) ==
  /\ Len(out) = 6
  /\ out[4] = "No specific results found in demo knowledge base.\n"

\* C19: web_search(query) returns the "no specific results" fallback text if
\* and only if no topic record matches the query under the case-insensitive
\* substring/word match; otherwise it returns every matching record exactly
\* once, in knowledge-base order, numbered consecutively from 1, and no
\* non-matching record.
C19_SearchResults ==
  Returned("web_search") =>
    LET matching == {i \in DOMAIN KNOWLEDGE_BASE : TopicMatches(i, tool_args)}
        n == Cardinality(matching)
        \* the record listed at position j: the j-th matching one
        at(j) == CHOOSE i \in matching : Cardinality({m \in matching : m <= i}) = j
    IN /\ IsFallback(tool_out) <=> matching = {}
       /\ tool_out[2] = Str(tool_args)
       /\ matching # {} =>
            /\ Len(tool_out) = 3 + 10 * n
            /\ \A j \in 1..n :
                 /\ tool_out[3 + 10 * (j - 1) + 1] = ToString(j)
                 /\ tool_out[3 + 10 * (j - 1) + 3] = KNOWLEDGE_BASE[at(j)].title
                 /\ tool_out[3 + 10 * (j - 1) + 6] = KNOWLEDGE_BASE[at(j)].content
                 /\ tool_out[3 + 10 * (j - 1) + 9] = KNOWLEDGE_BASE[at(j)].url

\* "ReAct API": the second and the third record, numbered 1 and 2.
C19_Witness ==
  /\ Returned("web_search")
  /\ tool_args = <<"R", "e", "A", "c", "t", " ", "A", "P", "I">>
  /\ Len(tool_out) = 23
  /\ tool_out[4] = "1"
  /\ tool_out[6] = "ReAct: Synergizing Reasoning and Acting in Language Models"
  /\ tool_out[14] = "2"
  /\ tool_out[16] = "Google Gemini API Documentation"

\* The symbols of the calculator's allow-list, among the tokens modelled.
AllowedTokens == NumberTokens \cup {"+", "-", "*", "%", "(", ")"} \cup safe_dict

\* C16 as stated: calculator rejects every expression that uses a symbol
\* outside the allow-list: for each such expression it returns an error
\* string, never a "Result: ..." string.
C16_RejectsOutsideAllowList ==
  (Returned("calculator") /\ \E i \in DOMAIN tool_args : tool_args[i] \notin AllowedTokens)
    => tool_out[1] = "Error evaluating expression: "

\* Arithmetic over integer literals, parentheses and + - * %, read off the
\* tokens: the nesting depth after token i, and the value of an expression
\* found by splitting it at its last operator of lowest precedence outside
\* all parentheses.
Depth(ts, i) ==
  Cardinality({k \in 1..i : ts[k] = "("}) - Cardinality({k \in 1..i : ts[k] = ")"})

Balanced(ts) ==
  /\ \A i \in DOMAIN ts : Depth(ts, i) >= 0
  /\ Depth(ts, Len(ts)) = 0

IllFormed == [kind |-> "illformed", n |-> 0]
Undefined == [kind |-> "undefined", n |-> 0]
Value(n) == [kind |-> "value", n |-> n]

\* a mod b for b # 0: the r of the sign of b with a = q*b + r and |r| < |b|.
Remainder(a, b) ==
  CHOOSE r \in (IF b > 0 THEN 0..(b - 1) ELSE (b + 1)..0) :
    \E q \in -(a * a + 1)..(a * a + 1) : a = q * b + r

Combine(op, l, r) ==
  IF l.kind = "illformed" \/ r.kind = "illformed" THEN IllFormed
  ELSE IF l.kind = "undefined" \/ r.kind = "undefined" THEN Undefined
  ELSE CASE op = "+" -> Value(l.n + r.n)
         [] op = "-" -> Value(l.n - r.n)
         [] op = "*" -> Value(l.n * r.n)
         [] op = "%" -> IF r.n = 0 THEN Undefined ELSE Value(Remainder(l.n, r.n))

RECURSIVE ArithValue(_)
ArithValue(ts) ==
  IF ts = <<>> \/ ~Balanced(ts) THEN IllFormed
  ELSE LET outer(ops) == {i \in DOMAIN ts : ts[i] \in ops /\ Depth(ts, i) = 0}
           adds == {i \in outer({"+", "-"}) :
                      i > 1 /\ ts[i - 1] \in NumberTokens \cup {")"}}
           muls == outer({"*", "%"})
           at(set) == CHOOSE i \in set : \A k \in set : k <= i
           cut(i) == Combine(ts[i], ArithValue(SubSeq(ts, 1, i - 1)),
                               ArithValue(SubSeq(ts, i + 1, Len(ts))))
       IN IF adds # {} THEN cut(at(adds))
          ELSE IF muls # {} THEN cut(at(muls))
          ELSE IF ts[1] = "-" THEN Combine("-", Value(0), ArithValue(Tail(ts)))
          ELSE IF ts[1] = "+" THEN Combine("+", Value(0), ArithValue(Tail(ts)))
          ELSE IF ts[1] = "(" /\ Last(ts) = ")"
            THEN ArithValue(SubSeq(ts, 2, Len(ts) - 1))
          ELSE IF Len(ts) = 1 /\ ts[1] \in NumberTokens THEN Value(number(ts[1]))
          ELSE IllFormed

\* add and multiply return "Result: " followed by the float a+b, a*b.
SumAndProduct ==
  /\ Returned("add") =>
       tool_out = <<"Result: ", ToString(tool_args[1] + tool_args[2]) \o ".0">>
  /\ Returned("multiply") =>
       /\ tool_out[1] = "Result: "
       /\ \/ tool_out[2] = ToString(tool_args[1] * tool_args[2]) \o ".0"
          \/ tool_args[1] * tool_args[2] = 0 /\ tool_out[2] = "-0.0"

\* C17 as stated: for every well-formed expression over integer literals,
\* parentheses and + - * %, calculator returns "Result: " followed by the
\* value of the expression; add and multiply return the sum and the product.
C17_ResultForEveryWellFormed ==
  /\ (Returned("calculator") /\ ArithValue(tool_args).kind # "illformed") =>
       /\ tool_out[1] = "Result: "
       /\ ArithValue(tool_args).kind = "value"
       /\ tool_out[2] = ToString(ArithValue(tool_args).n)
  /\ SumAndProduct

\* C17, amended: for every well-formed expression over integer literals,
\* parentheses and + - * % in which no % has a right operand of value zero,
\* calculator returns "Result: " followed by the value of the expression,
\* where * and % bind tighter than + and -, operators of one precedence
\* group from the left, a sign binds tighter than any binary operator, and
\* a % b has the sign of b; when a % has a right operand of value zero it
\* returns an error text instead.  add and multiply return "Result: "
\* followed by the sum and the product as floats.
C17_ArithmeticResult ==
  /\ (Returned("calculator") /\ ArithValue(tool_args).kind = "value") =>
       tool_out = <<"Result: ", ToString(ArithValue(tool_args).n)>>
  /\ (Returned("calculator") /\ ArithValue(tool_args).kind = "undefined") =>
       tool_out = <<"Error evaluating expression: ", "ZeroDivisionError">>
  /\ SumAndProduct

C17_Witness ==
  /\ Returned("calculator")
  /\ tool_args = <<"(", "2", "+", "3", ")", "*", "2">>
  /\ tool_out = <<"Result: ", "10">>

\* The call a ToolResult answers: the one at its position after the nearest
\* Assistant message before it.
AnsweredCall(msgs, p) == msgs[NearestAI(msgs, p)].tool_calls[p - NearestAI(msgs, p)]

\* The ToolCall fails inside the tool invocation: an unregistered tool, a
\* calculator expression with a symbol outside the allow-list, a city that
\* is no table key, a query that matches no topic.
FailingCall(c) ==
  \/ c.name \notin ToolNames
  \/ c.name = "calculator" /\ \E i \in DOMAIN c.args : c.args[i] \notin AllowedTokens
  \/ c.name = "get_weather"
       /\ \A i \in DOMAIN weather_data : ~SameIgnoringCase(c.args, weather_data[i].city)
  \/ c.name = "web_search"
       /\ \A i \in DOMAIN KNOWLEDGE_BASE : ~TopicMatches(i, c.args)

\* The text of a ToolResult describes the error of the call.
DescribesError(content, c) ==
  \/ c.name \notin ToolNames /\ content = "Error: not a valid tool"
  \/ c.name = "calculator"
       /\ \E e \in {"SyntaxError", "NameError", "TypeError", "ZeroDivisionError"} :
            content = "Error evaluating expression: " \o e
  \/ c.name = "get_weather"
       /\ content = "Weather data not available for '" \o Str(c.args)
                      \o "'. Available cities: new york, london, tokyo, sydney, paris, mumbai"
  \/ c.name = "web_search"
       /\ content = "Search results for '" \o Str(c.args) \o "':\n"
                      \o "No specific results found in demo knowledge base.\n"
                      \o "In production, this would return real web search results.\n"
                      \o "Tip: Try searching for 'LangGraph', 'ReAct agent', 'Gemini API', or 'Python'."

\* C12 as stated: a failure inside a tool invocation never aborts the loop.
\* When a ToolCall names an unregistered tool, gives the calculator a
\* disallowed expression, or names an unknown city or topic, the Acting Step
\* appends a ToolResult whose text describes the error, and the loop goes on
\* to the next Reasoning Step.
C12_FailureBecomesErrorResult ==
  /\ \A p \in ToolResultsOf(messages) :
       FailingCall(AnsweredCall(messages, p)) =>
         DescribesError(messages[p].content, AnsweredCall(messages, p))
  /\ (pc = "agent" /\ n_tools >= 1) => Last(messages).type = "tool"

RunsOf(i) ==
  LET mine == SelectSeq(runs, LAMBDA r : r[1] = i)
  IN  [k \in DOMAIN mine |-> mine[k][2]]

\* run_demo_queries has finished its pass for the query at position i.
DemoPassOver(i) ==
  /\ driver_fn = "run_demo_queries"
  /\ i \in 1..Len(demo_queries)
  /\ demo_i > i

\* C21: in demo mode (run_demo_queries) with verbose true every demo query
\* is run through the agent loop twice, first by stream and then by invoke;
\* with verbose false it is run once.
C21_VerboseDemoRunsTwice ==
  \A i \in 1..Len(demo_queries) :
    DemoPassOver(i) =>
      RunsOf(i) = IF verbose THEN <<"stream", "invoke">> ELSE <<"invoke">>

====
